---- MODULE Spec2Model ----
(***************************************************************************)
(* Model of the YgoPrices Telegram bot (src/main.go): the webhook handler, *)
(* the pricing lookup, the reply sender and main's signal handling.        *)
(* Texts are sequences of one-character strings, so that lower-casing,     *)
(* substring search and splitting are computed character by character.    *)
(* Prices are counted in eighths of a dollar (exact float64 values).       *)
(***************************************************************************)
EXTENDS Integers, Sequences, FiniteSets, TLC

\* ------------------------------------------------------------------ bounds
\* Longest inbound text, counted in pieces of Pieces.
MaxPieces == 4
\* Number of inbound requests handled concurrently (SpecConc).
NReq == 2
\* Chat ids are drawn from 1..MaxChatID.
MaxChatID == 2

Reqs == 1..NReq
ChatIDs == 1..MaxChatID

\* ------------------------------------------------------------ input texts
CmdLower == <<"/","p","r","i","c","e","p","r","i","n","t","t","a","g">>
CmdMixed == <<"/","P","r","i","c","e","P","r","i","n","t","T","a","g">>
Space == <<" ">>
Tab == <<"\t">>
Tag == <<"A","b">>

Pieces == {CmdLower, CmdMixed, Space, Tab, Tag}

RECURSIVE Concats(_)
Concats(n) ==
    IF n = 0 THEN {<<>>}
    ELSE LET P == Concats(n - 1) IN P \cup {p \o q : p \in P, q \in Pieces}

\* Every text made of at most MaxPieces pieces.
Texts == Concats(MaxPieces)

\* The texts used when several requests are in flight: one per branch of the
\* handler (no command, command alone, command and tag).
ConcTexts == {Tag, CmdLower, CmdMixed \o Space \o Tag}

\* ------------------------------------------------------- string functions
UpperLetters == <<"A","B","C","D","E","F","G","H","I","J","K","L","M",
                  "N","O","P","Q","R","S","T","U","V","W","X","Y","Z">>
LowerLetters == <<"a","b","c","d","e","f","g","h","i","j","k","l","m",
                  "n","o","p","q","r","s","t","u","v","w","x","y","z">>

LowerChar(c) ==
    IF \E i \in DOMAIN UpperLetters : UpperLetters[i] = c
    THEN LowerLetters[CHOOSE i \in DOMAIN UpperLetters : UpperLetters[i] = c]
    ELSE c

\* strings.ToLower
ToLower(s) == [i \in DOMAIN s |-> LowerChar(s[i])]

\* strings.Contains
Contains(s, sub) ==
    \E i \in 0..(Len(s) - Len(sub)) : SubSeq(s, i + 1, i + Len(sub)) = sub

\* strings.Split(s, sep) for a one-character separator: one part more than
\* there are separators, empty parts included.
RECURSIVE SplitOn(_, _)
SplitOn(s, seps) ==
    IF \A i \in DOMAIN s : s[i] \notin seps THEN <<s>>
    ELSE LET i == CHOOSE k \in DOMAIN s :
                      /\ s[k] \in seps
                      /\ \A j \in 1..(k - 1) : s[j] \notin seps
         IN <<SubSeq(s, 1, i - 1)>> \o SplitOn(SubSeq(s, i + 1, Len(s)), seps)

Split_tabs(s) == SplitOn(s, {" ", "\t"})

\* strings.Split(body.Message.Text, " ")
Split(s) == SplitOn(s, {" "})

\* ---------------------------------------------------------------- replies
InvalidCommand == "Invalid command!"
ErrorFetching == "Error fetching card price!"

TwoDigits(n) == IF n < 10 THEN "0" \o ToString(n) ELSE ToString(n)

\* fmt's %.2f of a float64 holding p eighths: the nearest hundredth, an exact
\* tie going to the even neighbour.
Format2f(p) ==
    LET twice == 25 * p
        q == twice \div 2
        cents == IF twice % 2 = 1 /\ q % 2 = 1 THEN q + 1 ELSE q
    IN ToString(cents \div 100) \o "." \o TwoDigits(cents % 100)

ZeroPrices == [high |-> 0, average |-> 0, low |-> 0]

\* The nil *ygoPricesPriceForPrintTagResponse.
NilResponse == [nil |-> TRUE, status |-> "", prices |-> ZeroPrices]

convertYgoPricesPriceForPrintTagResponseToReply(body) ==
    "Prices\nHigh :$" \o Format2f(body.prices.high)
        \o "\nAverage: $" \o Format2f(body.prices.average)
        \o "\nLow: $" \o Format2f(body.prices.low)

\* --------------------------------------------------------- pricing client
Quotes == {[high |-> 84, average |-> 58, low |-> 24],
           [high |-> 3, average |-> 1, low |-> 0]}

\* What the pricing service can answer to one GET: no answer, a body that is
\* not the expected JSON, or a JSON body with a status flag and prices.
Upstream ==
    {[kind |-> k, status |-> "", prices |-> ZeroPrices] :
        k \in {"get_error", "bad_json"}}
    \cup {[kind |-> "json", status |-> s, prices |-> q] :
            s \in {"success", "fail"}, q \in Quotes}

fetch_ignoring_status(up) ==
    IF up.kind = "get_error" THEN [response |-> NilResponse, err |-> "get_error"]
    ELSE IF up.kind = "bad_json"
    THEN [response |-> NilResponse, err |-> "decode_error"]
    ELSE [response |-> [nil |-> FALSE, status |-> up.status, prices |-> up.prices],
          err |-> "nil"]

\* fetchCardPriceByPrintTag, given the service's answer: (response, err).
fetchCardPriceByPrintTag(up) ==
    IF up.kind = "get_error" THEN [response |-> NilResponse, err |-> "get_error"]
    ELSE IF up.kind = "bad_json"
    THEN [response |-> NilResponse, err |-> "decode_error"]
    ELSE IF up.status = "success"
    THEN [response |-> [nil |-> FALSE, status |-> up.status, prices |-> up.prices],
          err |-> "nil"]
    ELSE [response |-> NilResponse, err |-> "nil"]

\* ----------------------------------------------------------- reply sender
\* What the chat platform can answer to one POST: no answer, or a status.
Telegram == {"post_error", "200", "403"}

\* sendReply's return value, given the platform's answer.
sendReply(ans) ==
    IF ans = "post_error" THEN "post_error"
    ELSE IF ans # "200" THEN "unexpected status" \o ans
    ELSE "nil"

\* ------------------------------------------------------------------ state
VARIABLES
    pc,             \* per request: the handler's position
    req,            \* per request: the inbound HTTP body
    body,           \* per request: the handler's local webhookReqBody
    printTag,       \* per request: the handler's local printTag
    result,         \* per request: (response, err) of the lookup
    fetchCalls,     \* per request: arguments of its lookups, in order
    fetchSt,        \* per request: "none", "inflight" or "returned"
    sent,           \* per request: sendMessage payloads it posted, in order
    sendSt,         \* per request: "none", "inflight" or "returned"
    sendErr,        \* per request: what sendReply returned (dropped)
    procState,      \* "running" or "exited"
    servePc,        \* the ListenAndServe goroutine
    mainPc,         \* main: "wait" or "shutdown"
    sigChan,        \* the signal channel c, capacity 1
    sig,            \* main's local sig
    shutdownCalled, \* s.Shutdown(ctx) has been called
    exitBy          \* what ended the process: a signal's name, "listen_error",
                    \* "main_return" or "os.Exit(1)"

handlerVars ==
    <<pc, req, body, printTag, result, fetchCalls, fetchSt, sent, sendSt, sendErr>>
mainVars == <<procState, servePc, mainPc, sigChan, sig, shutdownCalled, exitBy>>
vars == <<handlerVars, mainVars>>

NoReq == [malformed |-> FALSE, text |-> <<>>, chatId |-> 0]
\* The zero value of webhookReqBody.
ZeroBody == [text |-> <<>>, chatId |-> 0]
NoResult == [response |-> NilResponse, err |-> "nil"]

\* A body json cannot decode into webhookReqBody.
Malformed == [malformed |-> TRUE, text |-> <<>>, chatId |-> 0]

InitHandlers ==
    /\ pc = [r \in Reqs |-> "idle"]
    /\ req = [r \in Reqs |-> NoReq]
    /\ body = [r \in Reqs |-> ZeroBody]
    /\ printTag = [r \in Reqs |-> <<>>]
    /\ result = [r \in Reqs |-> NoResult]
    /\ fetchCalls = [r \in Reqs |-> <<>>]
    /\ fetchSt = [r \in Reqs |-> "none"]
    /\ sent = [r \in Reqs |-> <<>>]
    /\ sendSt = [r \in Reqs |-> "none"]
    /\ sendErr = [r \in Reqs |-> "nil"]

InitMain(serve) ==
    /\ procState = "running"
    /\ servePc = serve
    /\ mainPc = "wait"
    /\ sigChan = <<>>
    /\ sig = "none"
    /\ shutdownCalled = FALSE
    /\ exitBy = "none"

\* main has started the server goroutine and blocks on the signal channel.
Init == InitHandlers /\ InitMain("starting")

\* The same, once ListenAndServe is accepting connections.
InitServing == InitHandlers /\ InitMain("serving")

\* ---------------------------------------------------------------- handler
DecodeFails_never(rq) == FALSE

\* json.NewDecoder(req.Body).Decode(body) returns an error.
DecodeFails(rq) == rq.malformed

IsCommand_negated(text) == ~Contains(ToLower(text), CmdLower)

\* strings.Contains(strings.ToLower(body.Message.Text), "/priceprinttag")
IsCommand(text) == Contains(ToLower(text), CmdLower)

ReplyChatID_latest(r) ==
    LET decoded == {q \in Reqs : body[q] # ZeroBody}
    IN body[CHOOSE q \in decoded : \A p \in decoded : q >= p].chatId

\* The chat id every sendReply call of the handler passes:
\* body.Message.Chat.ID of its own body.
ReplyChatID(r) == body[r].chatId

PcAfterFetchCall_async == "respond"

\* The handler blocks in fetchCardPriceByPrintTag until it returns.
PcAfterFetchCall == "await_fetch"

PcAfterSend_retry(e) == IF e = "nil" THEN "done" ELSE "dispatch"

\* After sendReply returns, whatever it returns, the handler logs and returns.
PcAfterSend(e) == "done"

\* A new POST / arrives and the server starts webhookHandler for it.
Receive(r, T) ==
    /\ procState = "running" /\ servePc = "serving"
    /\ pc[r] = "idle"
    /\ \E rq \in {Malformed} \cup
                 {[malformed |-> FALSE, text |-> t, chatId |-> c] :
                     t \in T, c \in ChatIDs} :
          req' = [req EXCEPT ![r] = rq]
    /\ pc' = [pc EXCEPT ![r] = "decode"]
    /\ UNCHANGED <<body, printTag, result, fetchCalls, fetchSt, sent, sendSt,
                   sendErr, mainVars>>

\* Lines 144-148.
Decode(r) ==
    /\ procState = "running"
    /\ pc[r] = "decode"
    /\ IF DecodeFails(req[r])
       THEN /\ pc' = [pc EXCEPT ![r] = "done"]
            /\ UNCHANGED body
       ELSE /\ body' = [body EXCEPT ![r] =
                          [text |-> req[r].text, chatId |-> req[r].chatId]]
            /\ pc' = [pc EXCEPT ![r] = "dispatch"]
    /\ UNCHANGED <<req, printTag, result, fetchCalls, fetchSt, sent, sendSt,
                   sendErr, mainVars>>

\* The handler calls sendReply(body.Message.Chat.ID, text): the POST leaves.
CallSendReply(r, text) ==
    /\ sent' = [sent EXCEPT ![r] =
                  Append(@, [chat_id |-> ReplyChatID(r), text |-> text])]
    /\ sendSt' = [sendSt EXCEPT ![r] = "inflight"]
    /\ pc' = [pc EXCEPT ![r] = "await_send"]

\* Lines 150-157 and 165-167: up to the first outbound call.
Dispatch(r) ==
    /\ procState = "running"
    /\ pc[r] = "dispatch"
    /\ IF IsCommand(body[r].text)
       THEN LET parts == Split(body[r].text) IN
            IF Len(parts) < 2
            THEN /\ CallSendReply(r, ErrorFetching)
                 /\ UNCHANGED <<printTag, fetchCalls, fetchSt>>
            ELSE /\ printTag' = [printTag EXCEPT ![r] = parts[2]]
                 /\ fetchCalls' = [fetchCalls EXCEPT ![r] = Append(@, parts[2])]
                 /\ fetchSt' = [fetchSt EXCEPT ![r] = "inflight"]
                 /\ pc' = [pc EXCEPT ![r] = PcAfterFetchCall]
                 /\ UNCHANGED <<sent, sendSt>>
       ELSE /\ CallSendReply(r, InvalidCommand)
            /\ UNCHANGED <<printTag, fetchCalls, fetchSt>>
    /\ UNCHANGED <<req, body, result, sendErr, mainVars>>

\* Lines 108-130: the pricing service answers and the lookup returns.
FetchReturn(r) ==
    /\ procState = "running"
    /\ pc[r] = "await_fetch"
    /\ \E up \in Upstream :
          result' = [result EXCEPT ![r] = fetchCardPriceByPrintTag(up)]
    /\ fetchSt' = [fetchSt EXCEPT ![r] = "returned"]
    /\ pc' = [pc EXCEPT ![r] = "respond"]
    /\ UNCHANGED <<req, body, printTag, fetchCalls, sent, sendSt, sendErr,
                   mainVars>>

\* Lines 158-163.
Respond(r) ==
    /\ procState = "running"
    /\ pc[r] = "respond"
    /\ IF result[r].err # "nil" \/ result[r].response.nil
       THEN CallSendReply(r, ErrorFetching)
       ELSE CallSendReply(r,
                convertYgoPricesPriceForPrintTagResponseToReply(result[r].response))
    /\ UNCHANGED <<req, body, printTag, result, fetchCalls, fetchSt, sendErr,
                   mainVars>>

\* Lines 96-104 and 168-171: the platform answers, sendReply returns, the
\* handler drops the returned error, logs and returns.
SendReturn(r) ==
    /\ procState = "running"
    /\ pc[r] = "await_send"
    /\ \E ans \in Telegram :
          /\ sendErr' = [sendErr EXCEPT ![r] = sendReply(ans)]
          /\ pc' = [pc EXCEPT ![r] = PcAfterSend(sendReply(ans))]
    /\ sendSt' = [sendSt EXCEPT ![r] = "returned"]
    /\ UNCHANGED <<req, body, printTag, result, fetchCalls, fetchSt, sent,
                   mainVars>>

\* ------------------------------------------------------------------- main
Signals == {"SIGINT", "SIGTERM", "SIGKILL"}

\* signal.Notify(c, os.Interrupt); signal.Notify(c, os.Kill)
Notified == {"SIGINT", "SIGKILL"}

\* The kernel never delivers SIGKILL to a handler.
Catchable(s) == s # "SIGKILL"

InFlight == {r \in Reqs : pc[r] \notin {"idle", "done"}}

\* ListenAndServe binds the port and serves.
StartServing ==
    /\ procState = "running" /\ servePc = "starting"
    /\ servePc' = "serving"
    /\ UNCHANGED <<handlerVars, procState, mainPc, sigChan, sig, shutdownCalled,
                   exitBy>>

\* Lines 198-202: ListenAndServe fails to start; os.Exit(1).
ListenFail ==
    /\ procState = "running" /\ servePc = "starting"
    /\ procState' = "exited"
    /\ exitBy' = "listen_error"
    /\ UNCHANGED <<handlerVars, servePc, mainPc, sigChan, sig, shutdownCalled>>

\* The process is sent a signal.  A notified, catchable signal goes to the
\* channel (dropped when the channel is full); any other takes its default
\* action, which for these three ends the process at once.
Signal(s) ==
    /\ procState = "running"
    /\ IF Catchable(s) /\ s \in Notified
       THEN /\ sigChan' = IF Len(sigChan) < 1 THEN Append(sigChan, s) ELSE sigChan
            /\ UNCHANGED <<procState, exitBy>>
       ELSE /\ procState' = "exited"
            /\ exitBy' = s
            /\ UNCHANGED sigChan
    /\ UNCHANGED <<handlerVars, servePc, mainPc, sig, shutdownCalled>>

\* Lines 211-216: main receives from c and calls s.Shutdown(ctx), which
\* closes the listener.
MainReceive ==
    /\ procState = "running" /\ mainPc = "wait"
    /\ sigChan # <<>>
    /\ sig' = Head(sigChan)
    /\ sigChan' = Tail(sigChan)
    /\ mainPc' = "shutdown"
    /\ shutdownCalled' = TRUE
    /\ servePc' = "closed"
    /\ UNCHANGED <<handlerVars, procState, exitBy>>

\* Shutdown returns once no handler is running; main returns.
ShutdownDrained ==
    /\ procState = "running" /\ mainPc = "shutdown"
    /\ InFlight = {}
    /\ procState' = "exited"
    /\ exitBy' = "main_return"
    /\ UNCHANGED <<handlerVars, servePc, mainPc, sigChan, sig, shutdownCalled>>

\* The 30 second context expires with handlers still running; main returns.
ShutdownTimeout ==
    /\ procState = "running" /\ mainPc = "shutdown"
    /\ InFlight # {}
    /\ procState' = "exited"
    /\ exitBy' = "main_return"
    /\ UNCHANGED <<handlerVars, servePc, mainPc, sigChan, sig, shutdownCalled>>

\* Lines 198-202: after Shutdown, ListenAndServe returns ErrServerClosed,
\* which is not nil: the goroutine calls os.Exit(1).
ServeClosedExit ==
    /\ procState = "running" /\ servePc = "closed"
    /\ procState' = "exited"
    /\ exitBy' = "os.Exit(1)"
    /\ UNCHANGED <<handlerVars, servePc, mainPc, sigChan, sig, shutdownCalled>>

\* --------------------------------------------------------- specifications
Handler(r, T) ==
    \/ Receive(r, T)
    \/ Decode(r)
    \/ Dispatch(r)
    \/ FetchReturn(r)
    \/ Respond(r)
    \/ SendReturn(r)

Main ==
    \/ StartServing
    \/ ListenFail
    \/ \E s \in Signals : Signal(s)
    \/ MainReceive
    \/ ShutdownDrained
    \/ ShutdownTimeout
    \/ ServeClosedExit

\* One request, every text of Texts, no signal.
Next == Handler(1, Texts)
Spec == InitServing /\ [][Next]_vars

\* NReq concurrent requests, the texts of ConcTexts, no signal.
NextConc == \E r \in Reqs : Handler(r, ConcTexts)
SpecConc == InitServing /\ [][NextConc]_vars

\* The whole process: main, the server goroutine, signals and one request.
NextMain == Main \/ Handler(1, ConcTexts)
SpecMain == Init /\ [][NextMain]_vars

\* ----------------------------------------------------------------- claims
Whitespace == {" ", "\t"}

IsNonEmpty(p) == p # <<>>

\* The whitespace-delimited tokens of a text.
Fields(s) == SelectSeq(SplitOn(s, Whitespace), IsNonEmpty)

\* The text holds the command in some token that another token follows.
CommandThenToken(t) ==
    \E i \in 1..(Len(Fields(t)) - 1) : Contains(ToLower(Fields(t)[i]), CmdLower)

HasCommand(t) == Contains(ToLower(t), CmdLower)

\* The handler of r decoded its body; it has gone past its first branch.
Decoded(r) == pc[r] \notin {"idle", "decode"} /\ ~req[r].malformed
PastDispatch(r) == Decoded(r) /\ pc[r] # "dispatch"

ReplyTexts(r) == [i \in DOMAIN sent[r] |-> sent[r][i].text]

\* C1: for every text holding the command followed by one more
\* whitespace-delimited token, the handler looks up exactly once, and the
\* argument is the second whitespace-delimited token of the original text.
Cex_C1 ==
    \A r \in Reqs :
        PastDispatch(r) /\ CommandThenToken(req[r].text)
            => fetchCalls[r] = <<Fields(req[r].text)[2]>>

\* C2: the pricing lookup is never called with an empty print tag.
Cex_C2 ==
    \A r \in Reqs : \A i \in DOMAIN fetchCalls[r] : fetchCalls[r][i] # <<>>

\* C3: a decoded message whose lower-cased text does not contain
\* "/priceprinttag" is answered exactly "Invalid command!" and never causes
\* a lookup.
Thm_C3 ==
    \A r \in Reqs :
        Decoded(r) /\ ~HasCommand(req[r].text)
            => /\ fetchCalls[r] = <<>>
               /\ fetchSt[r] = "none"
               /\ PastDispatch(r) => ReplyTexts(r) = <<InvalidCommand>>

Wit_C3 ==
    \E r \in Reqs :
        /\ pc[r] = "done" /\ ~req[r].malformed
        /\ req[r].text = Tag \o Space \o Tag
        /\ ReplyTexts(r) = <<"Invalid command!">>

\* C4: a text that holds the command and splits on " " into fewer than two
\* parts (it holds no space) is answered exactly "Error fetching card
\* price!" and never causes a lookup.
Thm_C4 ==
    \A r \in Reqs :
        /\ PastDispatch(r)
        /\ HasCommand(req[r].text)
        /\ \A i \in DOMAIN req[r].text : req[r].text[i] # " "
        => /\ fetchCalls[r] = <<>>
           /\ fetchSt[r] = "none"
           /\ ReplyTexts(r) = <<ErrorFetching>>

Wit_C4 ==
    \E r \in Reqs :
        /\ pc[r] = "done"
        /\ req[r].text = CmdMixed \o Tab \o Tag
        /\ ReplyTexts(r) = <<"Error fetching card price!">>
        /\ fetchCalls[r] = <<>>

LookupFailed(r) == result[r].err # "nil" \/ result[r].response.nil

\* C5: when the lookup ended in (nil, nil) or (nil, err) the reply is exactly
\* "Error fetching card price!"; any other reply after a lookup is the price
\* reply of a response whose status flag is "success".
Thm_C5 ==
    \A r \in Reqs :
        fetchSt[r] = "returned" /\ sent[r] # <<>>
            => /\ Len(sent[r]) = 1
               /\ LookupFailed(r) => sent[r][1].text = ErrorFetching
               /\ sent[r][1].text # ErrorFetching
                    => /\ ~result[r].response.nil
                       /\ result[r].err = "nil"
                       /\ result[r].response.status = "success"
                       /\ result[r].response.prices \in Quotes

Wit_C5 ==
    \E r, q \in Reqs :
        /\ pc[r] = "done" /\ fetchSt[r] = "returned"
        /\ result[r].response.nil
        /\ ReplyTexts(r) = <<"Error fetching card price!">>
        /\ pc[q] = "done" /\ fetchSt[q] = "returned"
        /\ result[q].response.status = "success"
        /\ ReplyTexts(q) = <<"Prices\nHigh :$10.50\nAverage: $7.25\nLow: $3.00">>

\* C6: the chat_id of every payload a handler posts is the chat id of the
\* inbound request that handler serves, whatever the other handlers do.
Thm_C6 ==
    \A r \in Reqs :
        \A i \in DOMAIN sent[r] : sent[r][i].chat_id = req[r].chatId

Wit_C6 ==
    \E r, q \in Reqs :
        /\ r # q
        /\ pc[r] = "done" /\ pc[q] = "done"
        /\ sent[r] # <<>> /\ sent[q] # <<>>
        /\ req[r].chatId # req[q].chatId
        /\ sent[r][1].text = InvalidCommand
        /\ sent[q][1].text \notin {InvalidCommand, ErrorFetching}

\* C7: when the inbound body does not decode, the handler returns without a
\* lookup and without a reply.
Thm_C7 ==
    \A r \in Reqs :
        req[r].malformed
            => /\ fetchCalls[r] = <<>> /\ fetchSt[r] = "none"
               /\ sent[r] = <<>> /\ sendSt[r] = "none"
               /\ pc[r] \in {"decode", "done"}

Wit_C7 == \E r \in Reqs : req[r].malformed /\ pc[r] = "done"

\* C8: a request causes at most one reply send and at most one lookup,
\* whatever the lookup and the send return.
Thm_C8 ==
    \A r \in Reqs : Len(sent[r]) <= 1 /\ Len(fetchCalls[r]) <= 1

Wit_C8 ==
    \E r \in Reqs :
        /\ pc[r] = "done"
        /\ result[r].err # "nil"
        /\ sendErr[r] # "nil"
        /\ Len(sent[r]) = 1 /\ Len(fetchCalls[r]) = 1

\* C9: a process ended by SIGINT or SIGTERM has called Shutdown before it
\* exits.
Cex_C9 ==
    procState = "exited" /\ (exitBy \in {"SIGINT", "SIGTERM"} \/ sig # "none")
        => shutdownCalled

\* C10: within one request the reply send starts only after the lookup has
\* returned; the two calls never overlap.
Thm_C10 ==
    \A r \in Reqs :
        /\ ~(fetchSt[r] = "inflight" /\ sendSt[r] = "inflight")
        /\ sendSt[r] # "none" /\ fetchCalls[r] # <<>> => fetchSt[r] = "returned"

Wit_C10 ==
    \E r \in Reqs :
        /\ fetchSt[r] = "returned" /\ sendSt[r] = "inflight"
        /\ fetchCalls[r] # <<>>

====
